---- MODULE Spec2Model ----
(***************************************************************************)
(* Model of the Twitch Messaging Interface client of src/src/lib.rs:       *)
(* Tmi::new (connect, authenticate, join_all), Tmi::send,                  *)
(* Tmi::send_to_channel, Tmi::start (the polling thread) and               *)
(* parse_message.                                                          *)
(*                                                                         *)
(* A Rust String is a sequence of one-character strings, so that           *)
(* starts_with, replace, trim, split and slicing are computed character    *)
(* by character as the standard library computes them.                     *)
(***************************************************************************)
EXTENDS Integers, Sequences, FiniteSets, TLC

\* ------------------------------------------------------------ bounds

\* Longest configured room list.
MaxRooms == 2
\* Number of read_message calls that return a message.
MaxReads == 1
\* Number of send / send_to_channel calls the caller issues after new.
MaxSends == 1
\* Number of start calls the caller issues.
MaxLoops == 2
MaxLines == 2
MaxText == 3

\* ------------------------------------------------------------ strings

SP == " "
CR == "\r"
LF == "\n"
CRLF == <<CR, LF>>
Whitespace == {SP, CR, LF}

S_CAPREQ ==
  <<"C","A","P"," ","R","E","Q"," ",":","t","w","i","t","c","h",".","t","v",
    "/","t","a","g","s"," ","t","w","i","t","c","h",".","t","v","/","c","o",
    "m","m","a","n","d","s"," ","t","w","i","t","c","h",".","t","v","/","m",
    "e","m","b","e","r","s","h","i","p">>
S_PASS == <<"P","A","S","S"," ">>
S_NICK == <<"N","I","C","K"," ">>
S_JOIN == <<"J","O","I","N"," ">>
S_PRIVMSG == <<"P","R","I","V","M","S","G"," ">>
S_PING == <<"P","I","N","G"," ">>
S_PONG == <<"P","O","N","G"," ">>

\* s[n..] of Rust, n counted from 0: s without its first n characters.
Drop(s, n) == SubSeq(s, n + 1, Len(s))

\* str::starts_with
StartsWith(s, p) == Len(s) >= Len(p) /\ SubSeq(s, 1, Len(p)) = p

\* str::replace: every non-overlapping occurrence of from, left to right.
RECURSIVE Replace(_, _, _)
Replace(s, from, to) ==
  IF s = <<>> THEN <<>>
  ELSE IF StartsWith(s, from) THEN to \o Replace(Drop(s, Len(from)), from, to)
  ELSE <<Head(s)>> \o Replace(Tail(s), from, to)

RECURSIVE TrimStart(_)
TrimStart(s) ==
  IF s # <<>> /\ Head(s) \in Whitespace THEN TrimStart(Tail(s)) ELSE s

RECURSIVE TrimEnd(_)
TrimEnd(s) ==
  IF s # <<>> /\ s[Len(s)] \in Whitespace
  THEN TrimEnd(SubSeq(s, 1, Len(s) - 1)) ELSE s

\* str::trim: leading and trailing whitespace removed.
Trim(s) == TrimEnd(TrimStart(s))

\* str::split(pat): the pieces between the occurrences of pat, empty
\* pieces kept, always at least one piece.  cur is the piece being read.
RECURSIVE SplitFrom(_, _, _)
SplitFrom(s, pat, cur) ==
  IF s = <<>> THEN <<cur>>
  ELSE IF StartsWith(s, pat)
       THEN <<cur>> \o SplitFrom(Drop(s, Len(pat)), pat, <<>>)
  ELSE SplitFrom(Tail(s), pat, Append(cur, Head(s)))

Split(s, pat) == SplitFrom(s, pat, <<>>)

\* [String]::join(sep)
RECURSIVE Join(_, _)
Join(ss, sep) ==
  IF ss = <<>> THEN <<>>
  ELSE IF Len(ss) = 1 THEN ss[1]
  ELSE ss[1] \o sep \o Join(Tail(ss), sep)

\* ------------------------------------------------------------ parse_message

\* HashMap::insert
MapInsert(m, k, v) ==
  [x \in DOMAIN m \cup {k} |-> IF x = k THEN v ELSE m[x]]

EmptyMap == [x \in {} |-> <<>>]

\* The loop over chunks[0].split(";"): each entry is split on every "=",
\* parts[0] is the key and parts[1..] joined by "=" is the value.
RECURSIVE InsertEntries(_, _)
InsertEntries(m, entries) ==
  IF entries = <<>> THEN m
  ELSE LET parts == Split(Head(entries), <<"=">>)
       IN InsertEntries(MapInsert(m, parts[1], Join(Tail(parts), <<"=">>)),
                        Tail(entries))

Chunks(message) == Split(message, <<SP>>)

HasTags(message) == StartsWith(Chunks(message)[1], <<"@">>)

\* chunks after the tag block, if any, has been drained.
AfterTags(message) ==
  IF HasTags(message) THEN Tail(Chunks(message)) ELSE Chunks(message)

\* parse_message as it would be with parts[1] in place of parts[1..]: an
\* entry of the tag block without "=" panics too.
ParsePanics_strict(message) ==
  LET c == AfterTags(message)
  IN \/ Len(c) = 0
     \/ Len(c[1]) = 0
     \/ Len(c) = 1
     \/ /\ HasTags(message)
        /\ \E e \in {Drop(Chunks(message)[1], 1)} :
             \E k \in 1..Len(Split(e, <<";">>)) :
               Len(Split(Split(e, <<";">>)[k], <<"=">>)) = 1

\* The places where parse_message panics: drain(0..1) of an empty vector
\* (no prefix token, no command token) and [1..] of an empty prefix token.
ParsePanics(message) ==
  LET c == AfterTags(message)
  IN \/ Len(c) = 0
     \/ Len(c[1]) = 0
     \/ Len(c) = 1

ParseMetadata(message) ==
  IF HasTags(message)
  THEN InsertEntries(EmptyMap, Split(Chunks(message)[1], <<";">>))
  ELSE EmptyMap

\* from without the [1..] slice.
ParseFrom_keepcolon(message) ==
  Split(Split(AfterTags(message)[1], <<"@">>)[1], <<"!">>)[1]

ParseFrom(message) ==
  Split(Split(Drop(AfterTags(message)[1], 1), <<"@">>)[1], <<"!">>)[1]

ParseCommand(message) == AfterTags(message)[2]

\* Option<String>: <<>> is None, <<t>> is Some(t).
ParseTarget(message) ==
  LET rest == Drop(AfterTags(message), 2)
  IN IF Len(rest) # 0 THEN <<rest[1]>> ELSE <<>>

\* params with its leading ":" left in place.
ParseParams_keepcolon(message) ==
  LET rest == Drop(AfterTags(message), 2)
  IN IF Len(rest) # 0 THEN Join(Tail(rest), <<SP>>) ELSE <<>>

ParseParams(message) ==
  LET rest == Drop(AfterTags(message), 2)
  IN IF Len(rest) # 0
     THEN LET params == Join(Tail(rest), <<SP>>)
          IN IF StartsWith(params, <<":">>) THEN Drop(params, 1) ELSE params
     ELSE <<>>

\* The DecodedMessage parse_message returns when it does not panic.
parse_message(message) ==
  [metadata |-> ParseMetadata(message),
   from     |-> ParseFrom(message),
   command  |-> ParseCommand(message),
   target   |-> ParseTarget(message),
   params   |-> ParseParams(message)]

\* ------------------------------------------------------------ inputs

\* SessionConfig values: credential tokens, nicknames, room names.
Tokens == {<<"o">>, <<"o","2">>}
Nicks == {<<"b">>, <<"n","b">>}
RoomNames == {<<"#","a">>, <<"#","b">>}

RECURSIVE SeqsUpTo(_, _)
SeqsUpTo(S, n) ==
  IF n = 0 THEN {<<>>}
  ELSE LET shorter == SeqsUpTo(S, n - 1)
       IN shorter \cup {Append(q, x) : q \in shorter, x \in S}

\* Room lists, duplicates allowed.
RoomLists == SeqsUpTo(RoomNames, MaxRooms)

\* Texts read_message can return.
\*   "PING PING a\r\n"
M_PINGPING == <<"P","I","N","G"," ","P","I","N","G"," ","a","\r","\n">>
\*   ":n C\r\nPING :a\r\n:m D #c :hi\r\n"
M_MSG_PING_MSG ==
  <<":","n"," ","C","\r","\n",
    "P","I","N","G"," ",":","a","\r","\n",
    ":","m"," ","D"," ","#","c"," ",":","h","i","\r","\n">>
\*   "\r\n"
M_EMPTY == <<"\r","\n">>
Incoming == {M_PINGPING, M_MSG_PING_MSG, M_EMPTY}

\* Texts with a line that is not tags, prefix, command, parameters.
\*   "@k :n C\r\n"   "n C\r\n"   ":n\r\n"
M_NOEQ == <<"@","k"," ",":","n"," ","C","\r","\n">>
M_NOPREFIX == <<"n"," ","C","\r","\n">>
M_NOCOMMAND == <<":","n","\r","\n">>
Malformed == {M_NOEQ, M_NOPREFIX, M_NOCOMMAND, M_MSG_PING_MSG, M_EMPTY}

\* Arguments of send and send_to_channel.
\* The raw line is the one send_to_channel formats from ChatTexts and Channels.
RawLines == {<<"P","R","I","V","M","S","G"," ","#","a"," ",":","h","i">>}
ChatTexts == {<<"h","i">>}
Channels == {<<"#","a">>}

\* Lines a server sends, without their terminator.
\*   ":n C"   " :n C"   ":n C #c :hi "   "PING :a"   ":m D #c :yo"
L_MSG == <<":","n"," ","C">>
L_LEADING_SPACE == <<" ",":","n"," ","C">>
L_TRAILING_SPACE == <<":","n"," ","C"," ","#","c"," ",":","h","i"," ">>
L_PING == <<"P","I","N","G"," ",":","a">>
L_CHAT == <<":","m"," ","D"," ","#","c"," ",":","y","o">>
ReadLines == {L_MSG, L_LEADING_SPACE, L_TRAILING_SPACE, L_PING, L_CHAT}

\* One read carrying up to MaxLines lines, the last with or without its CRLF.
Reads ==
  {[lines |-> ls, last |-> t] :
     ls \in SeqsUpTo(ReadLines, MaxLines) \ {<<>>}, t \in {<<>>, CRLF}}

\* The text read_message returns for such a read.
ReadText(r) == Join(r.lines, CRLF) \o r.last

\* The parts of a line handed to parse_message.
\* Tag blocks: a sequence of entries, eq telling whether the entry has "=".
\*   "@k=v"   "@a=v=w;b="   "@k"
TagBlocks ==
  {<<[key |-> <<"k">>, eq |-> TRUE, value |-> <<"v">>]>>,
   <<[key |-> <<"a">>, eq |-> TRUE, value |-> <<"v","=","w">>],
     [key |-> <<"b">>, eq |-> TRUE, value |-> <<>>]>>,
   <<[key |-> <<"k">>, eq |-> FALSE, value |-> <<>>]>>}

\* Prefix tokens: lead, a name free of "@" and "!", and what follows it.
\*   ":n!u@h"   ":u@h"   ":h"   "::n!u"   "n!u@h"
Prefixes ==
  {[lead |-> <<":">>, name |-> <<"n">>, tail |-> <<"!","u","@","h">>],
   [lead |-> <<":">>, name |-> <<"u">>, tail |-> <<"@","h">>],
   [lead |-> <<":">>, name |-> <<"h">>, tail |-> <<>>],
   [lead |-> <<":">>, name |-> <<":","n">>, tail |-> <<"!","u">>],
   [lead |-> <<>>, name |-> <<"n">>, tail |-> <<"!","u","@","h">>]}

Commands == {<<"C">>}
Targets == {<<"#","c">>}

\* What follows the target: "", ":hi", "::h  i", "h i", ":"
Trailings ==
  {<<>>, <<":","h","i">>, <<":",":","h"," "," ","i">>, <<"h"," ","i">>,
   <<":">>}

\* What follows the command: nothing, a target, or a target and more.
Rests ==
  {<<>>} \cup {<<t>> : t \in Targets}
         \cup {<<t, x>> : t \in Targets, x \in Trailings}

\* Lines: an optional tag block, a prefix, an optional command and then rest.
ParseInputs ==
  {[tags |-> t, prefix |-> p, command |-> <<c>>, rest |-> r] :
     t \in {<<>>} \cup {<<b>> : b \in TagBlocks}, p \in Prefixes,
     c \in Commands, r \in Rests}
  \cup
  {[tags |-> t, prefix |-> p, command |-> <<>>, rest |-> <<>>] :
     t \in {<<>>} \cup {<<b>> : b \in TagBlocks}, p \in Prefixes}

TagEntry(e) == e.key \o (IF e.eq THEN <<"=">> \o e.value ELSE <<>>)

TagToken(b) == <<"@">> \o Join([k \in 1..Len(b) |-> TagEntry(b[k])], <<";">>)

PrefixToken(p) == p.lead \o p.name \o p.tail

\* The text of the line, its tokens separated by single spaces.
Line(in) ==
  Join((IF in.tags = <<>> THEN <<>> ELSE <<TagToken(in.tags[1])>>)
       \o <<PrefixToken(in.prefix)>> \o in.command \o in.rest, <<SP>>)

\* Arguments of send_to_channel for the round trip through parse_message:
\* texts of at most MaxText characters, some led by ":" and some with runs
\* of spaces, channels free of spaces, and the prefix token a server adds.
ChatChars == {"h", SP, ":"}
RoundTripTexts == SeqsUpTo(ChatChars, MaxText)
RoundTripChannels == {<<>>, <<"c">>, <<"#","a">>}
RoundTrips ==
  {[message |-> m, channel |-> c, prefix |-> <<":","n","!","u","@","h">>] :
     m \in RoundTripTexts, c \in RoundTripChannels}

\* ------------------------------------------------------------ state

VARIABLES
  oauth, nick, rooms,  \* the fields of Tmi set by new
  cpc,                 \* where the caller is: new, idle, lock, write, aborted
  hs,                  \* handshake lines written so far
  cmsg,                \* the message of the send call in progress
  cres,                \* what the last send call after new returned
  guard,               \* the threads holding a MutexGuard of ws
  poisoned,            \* the poison flag of the Mutex
  writers,             \* the threads inside write_message
  lpc,                 \* where each polling thread is
  pending,             \* the sub-lines its for loop has still to visit
  cause,               \* which unwrap ended the polling thread
  got,                 \* every sub-line the polling thread has read
  queue,               \* the channel of each start call
  delivered,           \* what the consumer has received from it
  rxAlive,             \* whether the Receiver is still held
  eos,                 \* whether recv has returned Err
  wire,                \* the messages written to the WebSocket, in order
  pongs,               \* the replies written, each with its sub-line
  nReads, nSends,
  fin,                 \* the argument of a function applied on its own
  fout                 \* <<>>, or <<its result>>

fnVars == <<fin, fout>>
cfgVars == <<oauth, nick, rooms>>
callerVars == <<cpc, hs, cmsg, cres, nSends>>
mutexVars == <<guard, poisoned>>
loopVars == <<lpc, pending, cause, got, nReads>>
chanVars == <<queue, delivered, rxAlive, eos>>
wireVars == <<writers, wire, pongs>>
vars ==
  <<fnVars, cfgVars, callerVars, mutexVars, loopVars, chanVars, wireVars>>

\* The thread that owns the Tmi; the polling threads are 1..MaxLoops.
Caller == 0
Loops == 1..MaxLoops

\* authenticate: the three lines, in this order.
AuthLines(o, n) == <<S_CAPREQ, S_PASS \o o, S_NICK \o n>>

\* join_all over the set of rooms: a room listed twice is joined once.
JoinLines_dedup(rs) ==
  LET first == {k \in 1..Len(rs) : \A j \in 1..(k - 1) : rs[j] # rs[k]}
      F[k \in 0..Len(rs)] ==
        IF k = 0 THEN <<>>
        ELSE IF k \in first THEN Append(F[k - 1], S_JOIN \o rs[k])
        ELSE F[k - 1]
  IN F[Len(rs)]

\* join_all: one JOIN per entry of rooms, in order.
JoinLines(rs) == [k \in 1..Len(rs) |-> S_JOIN \o rs[k]]

\* The lines new sends: authenticate, then join_all.
HandshakeLines == AuthLines(oauth, nick) \o JoinLines(rooms)

\* new as it would be if it returned after authenticate, leaving join_all.
Returned_early == hs >= Len(AuthLines(oauth, nick))

\* new has returned the Tmi: every send of the handshake was Ok.
Returned == hs = Len(HandshakeLines)

\* The frame as it would be with a line terminator appended.
TextFrame_crlf(message) == message \o CRLF

\* Message::from(String): the text of the frame is the string itself.
TextFrame(message) == message

\* A lock that excludes nobody.
MutexAvailable_unguarded == TRUE

\* Mutex::lock blocks while another guard exists.
MutexAvailable == guard = {}

\* The program's state before new is called with (o, n, rs).
Unconnected(o, n, rs) ==
  /\ oauth = o /\ nick = n /\ rooms = rs
  /\ cpc = "new" /\ hs = 0 /\ cmsg = <<>> /\ cres = "none" /\ nSends = 0
  /\ guard = {} /\ poisoned = FALSE
  /\ writers = {} /\ wire = <<>> /\ pongs = {}
  /\ lpc = [i \in Loops |-> "unborn"]
  /\ pending = [i \in Loops |-> <<>>]
  /\ cause = [i \in Loops |-> "none"]
  /\ got = [i \in Loops |-> <<>>]
  /\ nReads = 0
  /\ queue = [i \in Loops |-> <<>>]
  /\ delivered = [i \in Loops |-> <<>>]
  /\ rxAlive = [i \in Loops |-> FALSE]
  /\ eos = [i \in Loops |-> FALSE]

\* The state before new is called with (o, n, rs), no function applied.
InitWith(o, n, rs) == fin = <<>> /\ fout = <<>> /\ Unconnected(o, n, rs)

\* One configuration, for the behaviour after the handshake, which reads
\* none of oauth, nick and rooms.
Init == InitWith(<<"o">>, <<"b">>, <<<<"#","a">>>>)

\* Every configuration, for the handshake.
InitNew == \E o \in Tokens, n \in Nicks, rs \in RoomLists : InitWith(o, n, rs)

\* ------------------------------------------------------------ Tmi::new

\* connect(request).expect(..): Ok, and new goes on to authenticate.
ConnectOk ==
  /\ cpc = "new"
  /\ cpc' = "idle"
  /\ UNCHANGED <<fnVars, cfgVars, hs, cmsg, cres, nSends, mutexVars, loopVars,
                 chanVars, wireVars>>

\* connect(request).expect(..): Err, expect panics and no Tmi exists.
ConnectFail ==
  /\ cpc = "new"
  /\ cpc' = "aborted"
  /\ UNCHANGED <<fnVars, cfgVars, hs, cmsg, cres, nSends, mutexVars, loopVars,
                 chanVars, wireVars>>

\* authenticate / join_all call send with the next handshake line.
HandshakeSend ==
  /\ cpc = "idle" /\ ~Returned
  /\ cmsg' = HandshakeLines[hs + 1]
  /\ cpc' = "lock"
  /\ UNCHANGED <<fnVars, cfgVars, hs, cres, nSends, mutexVars, loopVars, chanVars,
                 wireVars>>

\* ------------------------------------------------------------ Tmi::send

\* The caller calls send(message).
Send(message) ==
  /\ cpc = "idle" /\ Returned /\ nSends < MaxSends
  /\ cmsg' = message
  /\ cpc' = "lock"
  /\ nSends' = nSends + 1
  /\ UNCHANGED <<fnVars, cfgVars, hs, cres, mutexVars, loopVars, chanVars, wireVars>>

\* The format string without its ":".
ChannelLine_nocolon(message, channel) == S_PRIVMSG \o channel \o <<SP>> \o message

\* format!("PRIVMSG {} :{}", channel, message)
ChannelLine(message, channel) == S_PRIVMSG \o channel \o <<SP, ":">> \o message

\* The caller calls send_to_channel(message, channel).
SendToChannel(message, channel) == Send(ChannelLine(message, channel))

\* self.ws.lock().unwrap(): blocks until the mutex is free; unwrap panics
\* when it is poisoned, else write_message starts under the guard.
SendAcquire ==
  /\ cpc = "lock" /\ MutexAvailable
  /\ IF poisoned
     THEN /\ cpc' = "aborted"
          /\ cmsg' = <<>>
          /\ UNCHANGED <<guard, writers>>
     ELSE /\ cpc' = "write"
          /\ guard' = guard \cup {Caller}
          /\ writers' = writers \cup {Caller}
          /\ cmsg' = cmsg
  /\ UNCHANGED <<fnVars, cfgVars, hs, cres, nSends, poisoned, loopVars,
                 chanVars, wire, pongs>>

\* write_message returns, and the handshake drops an Err in place of
\* unwrapping it.
SendWriteDone_ignore(ok) ==
  /\ cpc = "write"
  /\ writers' = writers \ {Caller}
  /\ guard' = guard \ {Caller}
  /\ wire' = IF ok THEN Append(wire, [by |-> Caller, text |-> TextFrame(cmsg)])
             ELSE wire
  /\ IF ~Returned
     THEN /\ hs' = hs + 1
          /\ cpc' = "idle"
          /\ cres' = cres
     ELSE /\ hs' = hs
          /\ cpc' = "idle"
          /\ cres' = IF ok THEN "ok" ELSE "err"
  /\ cmsg' = <<>>
  /\ UNCHANGED <<fnVars, cfgVars, nSends, poisoned, loopVars, chanVars, pongs>>

\* write_message returns and the guard is dropped.  Inside new the result
\* is unwrapped: Err panics.  After new it is returned to the caller.
SendWriteDone(ok) ==
  /\ cpc = "write"
  /\ writers' = writers \ {Caller}
  /\ guard' = guard \ {Caller}
  /\ wire' = IF ok THEN Append(wire, [by |-> Caller, text |-> TextFrame(cmsg)])
             ELSE wire
  /\ IF ~Returned
     THEN /\ hs' = IF ok THEN hs + 1 ELSE hs
          /\ cpc' = IF ok THEN "idle" ELSE "aborted"
          /\ cres' = cres
     ELSE /\ hs' = hs
          /\ cpc' = "idle"
          /\ cres' = IF ok THEN "ok" ELSE "err"
  /\ cmsg' = <<>>
  /\ UNCHANGED <<fnVars, cfgVars, nSends, poisoned, loopVars, chanVars, pongs>>

\* ------------------------------------------------------------ Tmi::start

\* start: a new channel and a new polling thread on a clone of ws.
Start ==
  /\ cpc = "idle" /\ Returned
  /\ \E i \in Loops :
       /\ lpc[i] = "unborn"
       /\ \A j \in Loops : j < i => lpc[j] # "unborn"
       /\ lpc' = [lpc EXCEPT ![i] = "lock"]
       /\ rxAlive' = [rxAlive EXCEPT ![i] = TRUE]
  /\ UNCHANGED <<fnVars, cfgVars, callerVars, mutexVars, pending, cause, got, nReads,
                 queue, delivered, eos, wireVars>>

\* An unwrap of the polling thread panics: the thread ends, its Sender is
\* dropped, and the guard it holds is dropped while panicking, which
\* poisons the mutex.
Die(i, why) ==
  /\ lpc' = [lpc EXCEPT ![i] = "dead"]
  /\ pending' = [pending EXCEPT ![i] = <<>>]
  /\ cause' = [cause EXCEPT ![i] = why]
  /\ poisoned' = (poisoned \/ i \in guard)
  /\ guard' = guard \ {i}
  /\ writers' = writers \ {i}

\* The for loop moves to the next sub-line; after the last one the loop
\* body ends, l_ws is dropped and the next iteration locks again.
Advance(i) ==
  /\ pending' = [pending EXCEPT ![i] = Tail(pending[i])]
  /\ IF Len(pending[i]) > 1
     THEN /\ lpc' = [lpc EXCEPT ![i] = "line"]
          /\ guard' = guard
     ELSE /\ lpc' = [lpc EXCEPT ![i] = "lock"]
          /\ guard' = guard \ {i}

\* local_ws.lock().unwrap()
LoopLock(i) ==
  /\ lpc[i] = "lock" /\ MutexAvailable
  /\ IF poisoned
     THEN /\ Die(i, "poison")
     ELSE /\ guard' = guard \cup {i}
          /\ lpc' = [lpc EXCEPT ![i] = "read"]
          /\ UNCHANGED <<pending, cause, poisoned, writers>>
  /\ UNCHANGED <<fnVars, cfgVars, callerVars, got, nReads, chanVars, wire, pongs>>

\* message.trim().split("\r\n")
SubLines(text) == Split(Trim(text), CRLF)

\* read_message returns Ok(text), with the guard held.
LoopReadOk(i, text) ==
  /\ lpc[i] = "read" /\ nReads < MaxReads
  /\ nReads' = nReads + 1
  /\ pending' = [pending EXCEPT ![i] = SubLines(text)]
  /\ got' = [got EXCEPT ![i] = got[i] \o SubLines(text)]
  /\ lpc' = [lpc EXCEPT ![i] = "line"]
  /\ UNCHANGED <<fnVars, cfgVars, callerVars, mutexVars, cause, chanVars, wireVars>>

\* read_message returns Err and the loop goes on to the next read.
LoopReadFail_retry(i) ==
  /\ lpc[i] = "read"
  /\ cause' = [cause EXCEPT ![i] = "read"]
  /\ UNCHANGED <<fnVars, cfgVars, callerVars, mutexVars, lpc, pending, got, nReads,
                 chanVars, wireVars>>

\* read_message returns Err: unwrap panics, with the guard held.
LoopReadFail(i) ==
  /\ lpc[i] = "read"
  /\ Die(i, "read")
  /\ UNCHANGED <<fnVars, cfgVars, callerVars, got, nReads, chanVars, wire, pongs>>

\* line.replace("PING ", "PONG ")
PongReply(line) == Replace(line, S_PING, S_PONG)

\* One pass of the for loop body, up to the call of write_message for a
\* PING line, or through parse_message and tx.send for any other line.
LoopLine(i) ==
  /\ lpc[i] = "line"
  /\ LET line == Head(pending[i])
     IN IF StartsWith(line, S_PING)
        THEN /\ writers' = writers \cup {i}
             /\ lpc' = [lpc EXCEPT ![i] = "pong"]
             /\ UNCHANGED <<pending, guard, cause, poisoned, queue>>
        ELSE IF ParsePanics(line)
        THEN /\ Die(i, "parse")
             /\ UNCHANGED queue
        ELSE IF ~rxAlive[i]
        THEN /\ Die(i, "queue")
             /\ UNCHANGED queue
        ELSE /\ queue' = [queue EXCEPT ![i] = Append(@, parse_message(line))]
             /\ Advance(i)
             /\ UNCHANGED <<cause, poisoned, writers>>
  /\ UNCHANGED <<fnVars, cfgVars, callerVars, got, nReads, delivered, rxAlive, eos,
                 wire, pongs>>

\* write_message of the reply returns; unwrap panics on Err.
LoopPongDone(i, ok) ==
  /\ lpc[i] = "pong"
  /\ LET line == Head(pending[i])
     IN IF ok
        THEN /\ wire' = Append(wire, [by |-> i,
                                      text |-> TextFrame(PongReply(line))])
             /\ pongs' = pongs \cup {[line |-> line, reply |-> PongReply(line)]}
             /\ writers' = writers \ {i}
             /\ Advance(i)
             /\ UNCHANGED <<cause, poisoned>>
        ELSE /\ Die(i, "write")
             /\ UNCHANGED <<wire, pongs>>
  /\ UNCHANGED <<fnVars, cfgVars, callerVars, got, nReads, chanVars>>

\* ------------------------------------------------------------ Receiver

\* The Sender is dropped when the polling thread ends.
SenderDropped(i) == lpc[i] = "dead"

\* receiver.recv(): the next message, or Err once the channel is empty
\* and the Sender dropped; it blocks otherwise.
Recv(i) ==
  /\ rxAlive[i] /\ ~eos[i]
  /\ IF queue[i] # <<>>
     THEN /\ delivered' = [delivered EXCEPT ![i] = Append(@, Head(queue[i]))]
          /\ queue' = [queue EXCEPT ![i] = Tail(@)]
          /\ eos' = eos
     ELSE /\ SenderDropped(i)
          /\ eos' = [eos EXCEPT ![i] = TRUE]
          /\ UNCHANGED <<queue, delivered>>
  /\ UNCHANGED <<fnVars, cfgVars, callerVars, mutexVars, loopVars, rxAlive, wireVars>>

\* The consumer drops the Receiver.
DropReceiver(i) ==
  /\ rxAlive[i]
  /\ rxAlive' = [rxAlive EXCEPT ![i] = FALSE]
  /\ UNCHANGED <<fnVars, cfgVars, callerVars, mutexVars, loopVars, queue, delivered,
                 eos, wireVars>>

\* ------------------------------------------------------------ specification

New ==
  \/ ConnectOk
  \/ ConnectFail
  \/ HandshakeSend

Call ==
  \/ \E m \in RawLines : Send(m)
  \/ \E m \in ChatTexts, c \in Channels : SendToChannel(m, c)
  \/ Start

Write ==
  \/ SendAcquire
  \/ \E ok \in BOOLEAN : SendWriteDone(ok)

Poll ==
  \E i \in Loops :
    \/ LoopLock(i)
    \/ \E text \in Incoming : LoopReadOk(i, text)
    \/ LoopReadFail(i)
    \/ LoopLine(i)
    \/ \E ok \in BOOLEAN : LoopPongDone(i, ok)

Consume ==
  \E i \in Loops :
    \/ Recv(i)
    \/ DropReceiver(i)

Next == New \/ Call \/ Write \/ Poll \/ Consume

Spec == Init /\ [][Next]_vars

\* new alone, over every configuration.
NextNew == New \/ Write

SpecNew == InitNew /\ [][NextNew]_vars

\* A consumer that keeps draining: it never drops a Receiver, and a recv
\* that can return does return.
NextDrain == New \/ Call \/ Write \/ Poll \/ \E i \in Loops : Recv(i)

FairSpec ==
  Init /\ [][NextDrain]_vars /\ \A i \in Loops : WF_vars(Recv(i))

\* The polling threads fed lines the parser was not written for, with a
\* consumer that keeps its Receiver.
PollMalformed ==
  \E i \in Loops :
    \/ LoopLock(i)
    \/ \E text \in Malformed : LoopReadOk(i, text)
    \/ LoopReadFail(i)
    \/ LoopLine(i)
    \/ \E ok \in BOOLEAN : LoopPongDone(i, ok)

NextMalformed ==
  New \/ Start \/ Write \/ PollMalformed \/ \E i \in Loops : Recv(i)

SpecMalformed == Init /\ [][NextMalformed]_vars

\* What reaches the wire: new, the caller's sends and polling threads whose
\* reads carry a PING line only, so that nothing is queued for a consumer.
PollPings ==
  \E i \in Loops :
    \/ LoopLock(i)
    \/ LoopReadOk(i, M_PINGPING)
    \/ LoopReadFail(i)
    \/ LoopLine(i)
    \/ \E ok \in BOOLEAN : LoopPongDone(i, ok)

NextWire == New \/ Call \/ Write \/ PollPings

SpecWire == Init /\ [][NextWire]_vars

\* ------------------------------------------------------------ properties

IsPrefix(a, b) == Len(a) <= Len(b) /\ SubSeq(b, 1, Len(a)) = a

\* The texts written to the transport, in order.
WireTexts == [k \in 1..Len(wire) |-> wire[k].text]

\* Every message ever pushed onto the channel of loop i.
Enqueued(i) == delivered[i] \o queue[i]

\* The polling threads that are running.
Live == {i \in Loops : lpc[i] \notin {"unborn", "dead"}}

\* The handshake of the wire protocol for the configuration: CAP REQ,
\* PASS <token>, NICK <nickname>, then JOIN <room> for every entry of rooms.
C1_Expected ==
  <<S_CAPREQ, S_PASS \o oauth, S_NICK \o nick>>
    \o [k \in 1..Len(rooms) |-> S_JOIN \o rooms[k]]

\* C1: new writes exactly CAP REQ, PASS <token>, NICK <nickname> and one
\* JOIN <room> per configured room, in the configured order with
\* duplicates kept, and nothing else, before the Tmi is returned.
C1_HandshakeSequence ==
  /\ IsPrefix(WireTexts, C1_Expected)
  /\ Returned => WireTexts = C1_Expected

\* new has returned for a room list that names one room twice.
C1_Witness ==
  /\ Returned
  /\ Len(rooms) = 2 /\ rooms[1] = rooms[2]
  /\ Len(wire) = 5

\* C2: the reply written for a sub-line that starts with "PING " is
\* "PONG " followed by the rest of the sub-line, unchanged.
C2_PongEchoesRemainder ==
  \A p \in pongs : p.reply = S_PONG \o Drop(p.line, Len(S_PING))

\* The parses of the sub-lines that do not start with "PING " (and that
\* parse_message accepts), in order.
RECURSIVE ParsedNonPing(_)
ParsedNonPing(ls) ==
  IF ls = <<>> THEN <<>>
  ELSE IF StartsWith(Head(ls), S_PING) \/ ParsePanics(Head(ls))
       THEN ParsedNonPing(Tail(ls))
  ELSE <<parse_message(Head(ls))>> \o ParsedNonPing(Tail(ls))

\* C3: once a polling thread is through the sub-lines it has read, the
\* messages pushed onto its queue are the parses of every sub-line read
\* that does not start with "PING ", in order, none dropped.  Stated for a
\* consumer that still holds the Receiver.
C3_QueueIsEveryNonPing ==
  \A i \in Loops :
    (rxAlive[i] /\ lpc[i] \in {"lock", "read", "dead"})
      => Enqueued(i) = ParsedNonPing(got[i])

\* C4: at most one thread is inside write_message at any time, so the
\* writes reach the transport one whole message after another.
C4_WholeLines == Cardinality(writers) <= 1

\* The caller is inside write_message of a send issued after new while a
\* polling thread that has already written a reply waits for the lock.
C4_Witness ==
  /\ Returned /\ Caller \in writers
  /\ \E i \in Loops :
       /\ lpc[i] = "lock"
       /\ \E k \in 1..Len(wire) : wire[k].by = i

\* C5: a send waiting for the lock never waits for a polling thread that
\* is blocked in read_message.
C5_SendWaitsOnlyForWrite ==
  \A i \in Loops : (cpc = "lock" /\ i \in guard) => lpc[i] # "read"

\* C6: at most one polling thread is running.
C6_OneLoop == Cardinality(Live) <= 1

\* A step taken after read_message has failed in polling thread i: the
\* thread is over, reads and writes nothing, and its queue only drains.
C7_NothingAfterFailure(i) ==
  cause[i] = "read" =>
    /\ lpc[i] = "dead" /\ lpc'[i] = "dead"
    /\ got'[i] = got[i]
    /\ i \notin writers'
    /\ Len(wire') > Len(wire) => wire'[Len(wire')].by # i
    /\ Enqueued(i)' = Enqueued(i)
    /\ IsPrefix(delivered[i], delivered'[i])

\* C7: once read_message has failed the polling thread is over and reads
\* and writes nothing more, nothing is added to its queue, and a consumer
\* that keeps calling recv gets every message left in the queue, in
\* order, and then the end of the stream.
C7_ReadFailureEndsStream ==
  /\ [][\A i \in Loops : C7_NothingAfterFailure(i)]_vars
  /\ \A i \in Loops :
       (cause[i] = "read") ~> (eos[i] /\ queue[i] = <<>>)

\* The read failed after two messages were queued, and the consumer has
\* received both and then the end of the stream.
C7_Witness ==
  \E i \in Loops :
    /\ cause[i] = "read" /\ eos[i]
    /\ Len(delivered[i]) = 2
    /\ delivered[i] = ParsedNonPing(got[i])

\* C8: a polling thread ends only when read_message fails.
C8_OnlyReadFailureEnds ==
  \A i \in Loops : lpc[i] = "dead" => cause[i] = "read"

\* C9: a failed write does not end a polling thread.
C9_WriteFailureKeepsLoop ==
  \A i \in Loops : ~(lpc[i] = "dead" /\ cause[i] = "write")

\* C10: a send or send_to_channel call on a returned Tmi returns to its
\* caller; it never aborts the caller.
C10_SendReturns == Returned => cpc # "aborted"

\* ------------------------------------------------- the split of one read

\* message.trim() and message.split("\r\n") of start, applied to one read.
ApplySubLines ==
  /\ fin \in Reads /\ fout = <<>>
  /\ fout' = <<SubLines(ReadText(fin))>>
  /\ UNCHANGED <<fin, cfgVars, callerVars, mutexVars, loopVars, chanVars,
                 wireVars>>

InitLines ==
  /\ fin \in Reads /\ fout = <<>>
  /\ Unconnected(<<"o">>, <<"b">>, <<<<"#","a">>>>)

NextLines == ApplySubLines

SpecLines == InitLines /\ [][NextLines]_vars

\* C11: the sub-lines of one read carrying k lines are those k lines, in
\* order, each unchanged: leading whitespace and trailing spaces are kept.
C11_LinesUnchanged == fout # <<>> => fout[1] = fin.lines

\* ------------------------------------------------- parse_message alone

\* parse_message applied to one line: it panics or returns a message.
ApplyParse ==
  /\ fin \in ParseInputs /\ fout = <<>>
  /\ fout' = <<IF ParsePanics(Line(fin))
               THEN [panic |-> TRUE]
               ELSE [panic |-> FALSE, msg |-> parse_message(Line(fin))]>>
  /\ UNCHANGED <<fin, cfgVars, callerVars, mutexVars, loopVars, chanVars,
                 wireVars>>

InitParse ==
  /\ fin \in ParseInputs /\ fout = <<>>
  /\ Unconnected(<<"o">>, <<"b">>, <<<<"#","a">>>>)

NextParse == ApplyParse

SpecParse == InitParse /\ [][NextParse]_vars

\* parse_message has returned a message for the line fin.
Parsed == fout # <<>> /\ ~fout[1].panic

\* The map a tag block stands for: each entry's key, without the "@" that
\* leads the token, to the entry's value.
RECURSIVE TagMap(_)
TagMap(b) ==
  IF b = <<>> THEN EmptyMap
  ELSE MapInsert(TagMap(SubSeq(b, 1, Len(b) - 1)),
                 b[Len(b)].key, b[Len(b)].value)

\* C12: metadata is exactly the map of the tag block, keys taken after the
\* leading "@" is removed, and is empty when there is no tag block.
C12_MetadataIsTagMap ==
  (Parsed /\ (fin.tags = <<>> \/ \A k \in 1..Len(fin.tags[1]) :
                                   fin.tags[1][k].eq))
    => fout[1].msg.metadata =
         (IF fin.tags = <<>> THEN EmptyMap ELSE TagMap(fin.tags[1]))

\* The first token of the line is a prefix token: it is led by ":".
HasPrefix == fin.prefix.lead = <<":">>

\* C13: from is the prefix token without its one leading ":", cut before
\* the first "@" and then before the first "!"; the token that follows the
\* prefix token is the command, verbatim.
C13_FromAndCommand ==
  (Parsed /\ HasPrefix)
    => /\ fout[1].msg.from = fin.prefix.name
       /\ fout[1].msg.command = fin.command[1]

\* A line with tags and prefix ":n!u@h", and one with prefix "::n!u".
C13_Witness ==
  /\ Parsed /\ HasPrefix
  /\ \/ fin.tags # <<>> /\ fin.prefix.tail = <<"!","u","@","h">>
     \/ fin.prefix.name = <<":","n">>

\* The text after the target, without its one leading ":" if it has one.
ExpectedParams(r) ==
  IF Len(r) < 2 THEN <<>>
  ELSE IF r[2] # <<>> /\ Head(r[2]) = ":" THEN Tail(r[2]) ELSE r[2]

\* C14: with no token after the command, target is absent and params is
\* empty; otherwise target is the next token and params is the rest of the
\* line after it, runs of spaces kept, with one leading ":" removed.
C14_TargetAndParams ==
  Parsed
    => /\ fout[1].msg.target =
            (IF fin.rest = <<>> THEN <<>> ELSE <<fin.rest[1]>>)
       /\ fout[1].msg.params = ExpectedParams(fin.rest)

\* The line ends in "#c ::h  i": a second colon and a run of spaces.
C14_Witness ==
  /\ Parsed /\ Len(fin.rest) = 2
  /\ fin.rest[2] = <<":",":","h"," "," ","i">>
  /\ fout[1].msg.params = <<":","h"," "," ","i">>

\* ------------------------------------------------- lines off the grammar

Range(q) == {q[k] : k \in 1..Len(q)}

\* The entries of the line's tag block that have no "=".
EntriesWithoutEq(line) ==
  IF HasTags(line)
  THEN {e \in Range(Split(Chunks(line)[1], <<";">>)) :
          \A k \in 1..Len(e) : e[k] # "="}
  ELSE {}

\* Past its tag block the line has a non-empty first token and a command.
HasPrefixAndCommand(line) ==
  Len(AfterTags(line)) >= 2 /\ AfterTags(line)[1] # <<>>

\* The step of polling thread i is the for loop body done for one sub-line.
LineDone(i) == lpc[i] = "line" /\ (pending'[i] # pending[i] \/ lpc'[i] # "line")

ViolatesPrecondition(line) ==
  \/ line = <<>>
  \/ Len(AfterTags(line)) < 2
  \/ ~StartsWith(AfterTags(line)[1], <<":">>)

\* C16: no message for a sub-line that violates the parser's precondition
\* is ever on the channel.
C16_NoMessageForViolation ==
  \A i \in Loops : \A l \in Range(got[i]) :
    (ViolatesPrecondition(l) /\ ~StartsWith(l, S_PING) /\ ~ParsePanics(l))
      => parse_message(l) \notin Range(Enqueued(i))

\* ------------------------------------------------- construction and send

\* C17: once a polling thread exists, a send has been called or a PONG has
\* been written, the whole handshake is on the wire, written by new, ahead
\* of every other line.
C17_HandshakeFirst ==
  ((\E i \in Loops : lpc[i] # "unborn") \/ nSends > 0 \/ pongs # {})
    => /\ Len(wire) >= Len(C1_Expected)
       /\ \A k \in 1..Len(C1_Expected) :
            wire[k] = [by |-> Caller, text |-> C1_Expected[k]]

\* After the handshake a polling thread has read lines and written a PONG
\* and the caller has had a line written.
C17_Witness ==
  /\ \E i \in Loops : got[i] # <<>>
  /\ pongs # {}
  /\ nSends > 0
  /\ \E k \in 1..Len(wire) : k > Len(C1_Expected) /\ wire[k].by = Caller

\* new has ended in a panic: no Tmi was returned.
NewFailed == cpc = "aborted" /\ ~Returned

\* C18: when connect fails or a handshake write fails, new ends in a panic;
\* from then on nothing happens on the connection: no polling thread was
\* or is started, no send is called, nothing more is written.
C18_FailureEndsConstruction ==
  [][/\ (cpc = "new" /\ cpc' # "idle") => cpc' = "aborted"
     /\ (cpc = "write" /\ ~Returned /\ cpc' # "write" /\ wire' = wire)
          => cpc' = "aborted"
     /\ ~NewFailed
     /\ NewFailed'
          => /\ \A i \in Loops : lpc'[i] = "unborn"
             /\ nSends' = 0
             /\ guard' = {} /\ writers' = {}
             /\ hs' < Len(HandshakeLines) /\ Len(wire') = hs'
    ]_vars

\* The third handshake write has failed.
C18_Witness == NewFailed /\ hs = 2 /\ Len(wire) = 2

\* C19: what send writes is one text frame holding the given message and
\* nothing else: no line terminator is added.
C19_FrameIsMessage ==
  [][(cpc = "write" /\ Len(wire') > Len(wire))
       => wire' = Append(wire, [by |-> Caller, text |-> cmsg])
    ]_vars

\* send_to_channel has had "PRIVMSG #a :hi" written, as given.
C19_Witness ==
  /\ nSends > 0 /\ cres = "ok"
  /\ wire[Len(wire)] = [by |-> Caller, text |-> ChannelLine(<<"h","i">>, <<"#","a">>)]

\* C19 as stated: every line written by send ends in CRLF.
C19_EndsInCRLF ==
  \A k \in 1..Len(wire) :
    wire[k].by = Caller
      => /\ Len(wire[k].text) >= 2
         /\ SubSeq(wire[k].text, Len(wire[k].text) - 1, Len(wire[k].text)) = CRLF

\* ------------------------------------------------- send_to_channel and back

\* The line send_to_channel formats, and what parse_message makes of that
\* line behind a prefix token and a space.
ApplyRoundTrip ==
  /\ fin \in RoundTrips /\ fout = <<>>
  /\ LET line == ChannelLine(fin.message, fin.channel)
         back == fin.prefix \o <<SP>> \o TextFrame(line)
     IN fout' = <<IF ParsePanics(back)
                  THEN [line |-> line, panic |-> TRUE]
                  ELSE [line |-> line, panic |-> FALSE,
                        msg |-> parse_message(back)]>>
  /\ UNCHANGED <<fin, cfgVars, callerVars, mutexVars, loopVars, chanVars,
                 wireVars>>

InitRoundTrip ==
  /\ fin \in RoundTrips /\ fout = <<>>
  /\ Unconnected(<<"o">>, <<"b">>, <<<<"#","a">>>>)

NextRoundTrip == ApplyRoundTrip

SpecRoundTrip == InitRoundTrip /\ [][NextRoundTrip]_vars

\* C20: send_to_channel formats "PRIVMSG <channel> :<message>", and that
\* line behind a prefix token parses to command PRIVMSG, target <channel>
\* and params <message>, whatever colons and spaces the message has.
C20_RoundTrip ==
  fout # <<>>
    => /\ fout[1].line =
            <<"P","R","I","V","M","S","G"," ">> \o fin.channel
              \o <<" ",":">> \o fin.message
       /\ ~fout[1].panic
       /\ fout[1].msg.command = <<"P","R","I","V","M","S","G">>
       /\ fout[1].msg.target = <<fin.channel>>
       /\ fout[1].msg.params = fin.message

\* The message ":  ", a colon and then two spaces, has made the round trip.
C20_Witness ==
  /\ fout # <<>> /\ ~fout[1].panic
  /\ fin.message = <<":"," "," ">>
  /\ fout[1].msg.params = <<":"," "," ">>

====
